---- MODULE Spec2Model ----
(***************************************************************************)
(* Entity catalog and enrichment pipeline of the MLB news/sentiment tool.  *)
(*                                                                         *)
(* The repository holds four near-duplicate scripts.  Two generations of   *)
(* the catalog refresh exist:                                              *)
(*   "roster"  final_presentation_v2.py / final_presentation.py /          *)
(*             Outfield.py (first script): teams, then one roster per team *)
(*   "people"  FinalProjectv2.py / Outfield.py (second script): one        *)
(*             /people call and one /teams call, no field validation       *)
(* and three generations of the resolver in main():                        *)
(*   substring, two loops (final_presentation.py, FinalProjectv2.py)       *)
(*   substring, guarded loops (Outfield.py, second script)                 *)
(*   exact match on lowercased maps (final_presentation_v2.py, Outfield.py)*)
(*                                                                         *)
(* Values.  A JSON/Python value that may be absent or None is modelled     *)
(* with sentinels so that every field keeps one TLA+ type:                 *)
(*   ids   are integers;   Absent (-2) = key not in the dict,              *)
(*                         None   (-1) = JSON null / Python None           *)
(*   names are sequences of one-character strings; AbsentStr and NoneStr   *)
(*         are one-element sequences holding a marker no name contains.    *)
(* A function's result is a record [exc, val]: exc = "none" when it        *)
(* returns val, otherwise the name of the exception leaving the function.  *)
(***************************************************************************)
EXTENDS Integers, Sequences, FiniteSets, TLC

VARIABLES
    today,      \* calendar date the process sees (datetime.now()), <<y, m, d>>
    cache,      \* content of VALID_ENTRIES_FILE on disk
    upstream,   \* what the MLB StatsAPI answers: teams, rosters, people
    ret,        \* result of the last load_or_update_valid_entries call
    call,       \* what that call did: variant, freshness verdict, fetches, I/O
    pre,        \* the cache file as it was when that call started
    built,      \* valid_data built by the refresh of that call (if any)
    catalog,    \* catalog handed to the resolver
    query,      \* raw text typed by the user
    res,        \* outcome of the resolver on (catalog, query)
    script,     \* which of the repository's scripts is running
    refreshes,  \* calls of fetch_and_cache_valid_entries so far
    run,        \* the enrichment part of main(): position, calls made, locals
    db,         \* rows of the articles table of news_articles.db, oldest first
    score,      \* compound score handed to categorize_score, in 1/10000
    label       \* label categorize_score returned for it

vars == <<today, cache, upstream, ret, call, pre, built, catalog, query, res,
          script, refreshes, run, db, score, label>>

\* the variables of the enrichment pipeline, and their value while only the
\* catalog or the resolver is exercised
pipe == <<run, db, score, label>>

NoRun == [pc |-> "idle", log |-> <<>>, stats |-> "unset", articles |-> <<>>,
          scored |-> <<>>, exc |-> "none", stored |-> "no",
          statsIn |-> "none", newsIn |-> "none", window |-> <<>>,
          paused |-> FALSE, shown |-> "none"]

PipeIdle == run = NoRun /\ db = <<>> /\ score = 0 /\ label = "unset"

(***************************************************************************)
(* Bounds of the model.                                                    *)
(***************************************************************************)
MaxTeams == 2       \* longest team list the upstream returns
MaxRoster == 1      \* longest roster / people list the upstream returns
MaxEntities == 2    \* longest teams / players list of a resolver catalog
MaxQueryLen == 2    \* longest query typed (after stripping)
MaxRefreshes == 2   \* refreshes followed in one behaviour

(***************************************************************************)
(* Sentinels.                                                              *)
(***************************************************************************)
Absent == -2
None == -1
AbsentStr == <<"<absent>">>
NoneStr == <<"<None>">>

\* Python truthiness of an id / a name obtained with dict.get
TruthyId(i) == i # Absent /\ i # None /\ i # 0
TruthyName(n) == n # AbsentStr /\ n # NoneStr /\ n # <<>>

\* dict.get(key): an absent key reads as None
GetId(i) == IF i = Absent THEN None ELSE i
GetName(n) == IF n = AbsentStr THEN NoneStr ELSE n

(***************************************************************************)
(* Dates.  datetime values are <<year, month, day>>; comparison is the     *)
(* lexicographic one of datetime.__gt__.                                   *)
(***************************************************************************)
TRADE_DEADLINE == <<2024, 7, 30>>

DateGT(a, b) ==
    \/ a[1] > b[1]
    \/ a[1] = b[1] /\ a[2] > b[2]
    \/ a[1] = b[1] /\ a[2] = b[2] /\ a[3] > b[3]

IsLeap(y) == (y % 4 = 0 /\ y % 100 # 0) \/ y % 400 = 0

DaysInMonth(y, m) ==
    IF m = 2 THEN (IF IsLeap(y) THEN 29 ELSE 28)
    ELSE IF m \in {4, 6, 9, 11} THEN 30 ELSE 31

(***************************************************************************)
(* A timestamp field of the cache file.                                    *)
(*   t = "absent"  no 'timestamp' key                                      *)
(*   t = "null"    JSON null                                               *)
(*   t = "num"     a JSON number                                           *)
(*   t = "text"    a string that does not have the shape d+-d+-d+, d any   *)
(*                 decimal digit of Unicode                                *)
(*   t = "ymd"     a string "y-m-d" with the numeric fields y, m, d, each  *)
(*                 written with w[1], w[2], w[3] characters: "2024-07-31"  *)
(*                 has w = <<4, 2, 2>>, "2024-7-31" <<4, 1, 2>> and        *)
(*                 "2024-007-31" <<4, 3, 2>> (a day written " 7" counts    *)
(*                 as two characters); u[1], u[2], u[3] are the positions  *)
(*                 in each field of the digits that are not ASCII 0-9      *)
(*                 (Arabic-Indic, fullwidth, ...)                          *)
(***************************************************************************)
TsU(t, y, m, d, w, u) ==
    [t |-> t, y |-> y, m |-> m, d |-> d, w |-> w, u |-> u]

\* a timestamp written in ASCII digits
TsW(t, y, m, d, w) == TsU(t, y, m, d, w, <<{}, {}, {}>>)

\* a timestamp in the zero-padded form that strftime writes
Ts(t, y, m, d) == TsW(t, y, m, d, <<4, 2, 2>>)

\* datetime.strftime('%Y-%m-%d')
strftime(date) == Ts("ymd", date[1], date[2], date[3])

\* datetime.strptime(s, '%Y-%m-%d'): TypeError for a non-string, ValueError
\* for a string of another shape or a date that does not exist.  The
\* patterns of _strptime: %Y is \d\d\d\d (four decimal digits of any
\* script), %m is 1[0-2]|0[1-9]|[1-9] (ASCII), %d is
\* 3[0-1]|[1-2]\d|0[1-9]|[1-9]| [1-9] (ASCII, but for the second digit
\* of 10..29)
strptime(ts) ==
    IF ts.t \in {"null", "num"} THEN [exc |-> "TypeError", val |-> <<0, 0, 0>>]
    ELSE IF ts.t # "ymd" THEN [exc |-> "ValueError", val |-> <<0, 0, 0>>]
    ELSE IF /\ ts.w[1] = 4 /\ ts.w[2] \in 1..2 /\ ts.w[3] \in 1..2
            /\ ts.u[2] = {}
            /\ \/ ts.u[3] = {}
               \/ ts.u[3] = {2} /\ ts.w[3] = 2 /\ ts.d \in 10..29
            /\ ts.y \in 1..9999
            /\ ts.m \in 1..12
            /\ ts.d \in 1..DaysInMonth(ts.y, ts.m)
         THEN [exc |-> "none", val |-> <<ts.y, ts.m, ts.d>>]
         ELSE [exc |-> "ValueError", val |-> <<0, 0, 0>>]

\* data.get('timestamp', '1900-01-01'): the default only replaces an absent key
GetTimestamp(ts) == IF ts.t = "absent" THEN Ts("ymd", 1900, 1, 1) ELSE ts

(***************************************************************************)
(* The cache file.                                                         *)
(*   k = "missing"  no such file                                           *)
(*   k = "binary"   bytes that do not decode as text (not UTF-8)           *)
(*   k = "corrupt"  text that is not JSON (also a truncated write)         *)
(*   k = "nonobj"   valid JSON that is not an object (a list, a number)    *)
(*   k = "obj"      an object with teams, players and a timestamp field    *)
(***************************************************************************)
File(k, teams, players, ts) ==
    [k |-> k, teams |-> teams, players |-> players, ts |-> ts]

NoTs == Ts("absent", 0, 0, 0)
MissingFile == File("missing", <<>>, <<>>, NoTs)
BinaryFile == File("binary", <<>>, <<>>, NoTs)
CorruptFile == File("corrupt", <<>>, <<>>, NoTs)
NonObjFile == File("nonobj", <<>>, <<>>, NoTs)

\* the value `{"players": [], "teams": []}` and, in general, a parsed object
Catalog(teams, players, ts) == [teams |-> teams, players |-> players, ts |-> ts]
EmptyCatalog == Catalog(<<>>, <<>>, NoTs)
FileCatalog(f) == Catalog(f.teams, f.players, f.ts)

\* what json.load returns for a file that holds a list, a number or null
NotAnObject == [json |-> "nonobj"]

Result(exc, val) == [exc |-> exc, val |-> val]

(***************************************************************************)
(* is_file_up_to_date(file_path, deadline).  readOk: whether open() of an  *)
(* existing file succeeds (an OSError is not caught here, nor is the       *)
(* UnicodeDecodeError of a file that does not decode).                     *)
(***************************************************************************)
is_file_up_to_date_ge(file, deadline, readOk) ==
    IF file.k = "missing" THEN Result("none", FALSE)
    ELSE IF ~readOk THEN Result("OSError", FALSE)
    ELSE IF file.k = "binary" THEN Result("UnicodeDecodeError", FALSE)
    ELSE IF file.k = "corrupt" THEN Result("none", FALSE)
    ELSE IF file.k = "nonobj" THEN Result("AttributeError", FALSE)
    ELSE LET p == strptime(GetTimestamp(file.ts))
         IN  IF p.exc = "ValueError" THEN Result("none", FALSE)
             ELSE IF p.exc # "none" THEN Result(p.exc, FALSE)
             ELSE Result("none", ~DateGT(deadline, p.val))

is_file_up_to_date(file, deadline, readOk) ==
    IF file.k = "missing" THEN Result("none", FALSE)
    ELSE IF ~readOk THEN Result("OSError", FALSE)
    ELSE IF file.k = "binary" THEN Result("UnicodeDecodeError", FALSE)
    ELSE IF file.k = "corrupt" THEN Result("none", FALSE)
    ELSE IF file.k = "nonobj" THEN Result("AttributeError", FALSE)
    ELSE LET p == strptime(GetTimestamp(file.ts))
         IN  IF p.exc = "ValueError" THEN Result("none", FALSE)
             ELSE IF p.exc # "none" THEN Result(p.exc, FALSE)
             ELSE Result("none", DateGT(p.val, deadline))

(***************************************************************************)
(* Upstream (MLB StatsAPI) answers.  A response is [ok, list]: ok = FALSE  *)
(* is a requests.exceptions.RequestException (connection error, HTTP       *)
(* error status, undecodable body).  rosters[i] answers the roster request *)
(* made for the i-th record of the team list.                              *)
(***************************************************************************)
Resp(ok, list) == [ok |-> ok, list |-> list]
Rec(id, name) == [id |-> id, name |-> name]

\* for entry in roster_entries: person = entry.get("person") or {} ...
\* (final_presentation_v2.py 90-98); a person is Rec(id, fullName)
RECURSIVE CollectPlayers(_, _)
CollectPlayers(entries, players) ==
    IF entries = <<>> THEN players
    ELSE LET person == Head(entries)
             pid == GetId(person.id)
             pname == GetName(person.name)
         IN  CollectPlayers(Tail(entries),
                 IF TruthyId(pid) /\ TruthyName(pname)
                 THEN Append(players, Rec(pid, pname))
                 ELSE players)

\* mutant: a roster failure aborts the loop
RECURSIVE TeamLoop_abort(_, _, _)
TeamLoop_abort(teams_list, rosters, valid_data) ==
    IF teams_list = <<>> THEN valid_data
    ELSE LET team == Head(teams_list)
             team_id == GetId(team.id)
             team_name == GetName(team.name)
             roster == Head(rosters)
         IN  IF ~TruthyId(team_id) \/ ~TruthyName(team_name)
             THEN TeamLoop_abort(Tail(teams_list), Tail(rosters), valid_data)
             ELSE IF ~roster.ok THEN valid_data
             ELSE TeamLoop_abort(Tail(teams_list), Tail(rosters),
                      [valid_data EXCEPT
                          !.teams = Append(@, Rec(team_id, team_name)),
                          !.players = CollectPlayers(roster.list, @)])

\* for team in teams_list: ... (final_presentation_v2.py 62-98)
RECURSIVE TeamLoop(_, _, _)
TeamLoop(teams_list, rosters, valid_data) ==
    IF teams_list = <<>> THEN valid_data
    ELSE LET team == Head(teams_list)
             team_id == GetId(team.id)
             team_name == GetName(team.name)
             roster == Head(rosters)
         IN  IF ~TruthyId(team_id) \/ ~TruthyName(team_name)
             THEN TeamLoop(Tail(teams_list), Tail(rosters), valid_data)
             ELSE LET roster_entries == IF roster.ok THEN roster.list ELSE <<>>
                  IN  TeamLoop(Tail(teams_list), Tail(rosters),
                          [valid_data EXCEPT
                              !.teams = Append(@, Rec(team_id, team_name)),
                              !.players = CollectPlayers(roster_entries, @)])

\* with open(VALID_ENTRIES_FILE, "w") as f: json.dump(valid_data, f)
\*   wr = "ok"       the file now holds valid_data
\*   wr = "denied"   open() raises OSError, the file is untouched
\*   wr = "partial"  open() truncated the file and the dump raised OSError
WriteCache(file, valid_data, wr) ==
    IF wr = "ok"
    THEN File("obj", valid_data.teams, valid_data.players, valid_data.ts)
    ELSE IF wr = "denied" THEN file
    ELSE CorruptFile

\* what a refresh reports back to the model: the exception leaving it (if
\* any), the file afterwards, the valid_data it built and whether it wrote
Fetched(exc, file, made, data, wr) ==
    [exc |-> exc, file |-> file, made |-> made, data |-> data, wr |-> wr]

\* mutant: a failed team listing returns at once, as the earlier
\* generation does
fetch_and_cache_valid_entries_return(up, now, file, wr) ==
    IF ~up.teams.ok THEN Fetched("none", file, FALSE, EmptyCatalog, "none")
    ELSE LET valid_data == TeamLoop(up.teams.list, up.rosters,
                                    Catalog(<<>>, <<>>, strftime(now)))
         IN  Fetched("none", WriteCache(file, valid_data, wr), TRUE,
                     valid_data, wr)

\* fetch_and_cache_valid_entries, roster generation
\* (final_presentation_v2.py 40-106)
fetch_and_cache_valid_entries(up, now, file, wr) ==
    LET teams_list == IF up.teams.ok THEN up.teams.list ELSE <<>>
        valid_data == TeamLoop(teams_list, up.rosters,
                               Catalog(<<>>, <<>>, strftime(now)))
    IN  Fetched("none", WriteCache(file, valid_data, wr), TRUE, valid_data, wr)

\* [{"id": p['id'], "name": p['fullName']} for p in player_data]:
\* a subscript of an absent key raises KeyError; None is copied as it is
HasAllKeys(list) ==
    \A i \in 1..Len(list) : list[i].id # Absent /\ list[i].name # AbsentStr

\* fetch_and_cache_valid_entries, people generation (FinalProjectv2.py 41-68)
fetch_and_cache_valid_entries_people(up, now, file, wr) ==
    IF ~up.people.ok \/ ~up.teams.ok
    THEN Fetched("none", file, FALSE, EmptyCatalog, "none")
    ELSE IF ~HasAllKeys(up.people.list) \/ ~HasAllKeys(up.teams.list)
    THEN Fetched("KeyError", file, FALSE, EmptyCatalog, "none")
    ELSE LET valid_data == Catalog(up.teams.list, up.people.list, strftime(now))
         IN  Fetched("none", WriteCache(file, valid_data, wr), TRUE, valid_data, wr)

Fetch(variant, up, now, file, wr) ==
    IF variant = "roster"
    THEN fetch_and_cache_valid_entries(up, now, file, wr)
    ELSE fetch_and_cache_valid_entries_people(up, now, file, wr)

(***************************************************************************)
(* load_or_update_valid_entries (final_presentation_v2.py 108-125, the     *)
(* same text in every script).  rd1, rd2, rd3: whether the open() in       *)
(* is_file_up_to_date, the open() that loads the catalog and the open()    *)
(* after the re-fetch of the fresh branch succeed; wr: the write outcome.  *)
(* The result adds to [exc, val] the file afterwards and what was done.    *)
(***************************************************************************)
NoFetch(file) == Fetched("none", file, FALSE, EmptyCatalog, "none")

Loaded(exc, val, fresh, fetched, f, rdFail) ==
    [exc |-> exc, val |-> val, file |-> f.file, fresh |-> fresh,
     fetched |-> fetched, made |-> f.made, data |-> f.data, wr |-> f.wr,
     rdFail |-> rdFail]

\* with open(VALID_ENTRIES_FILE, 'r') as f: return json.load(f)
\*   FileNotFoundError and PermissionError are OSErrors; UnicodeDecodeError
\*   is a ValueError but no json.JSONDecodeError
ReadJson(file, readOk) ==
    IF file.k = "missing" \/ ~readOk THEN Result("OSError", EmptyCatalog)
    ELSE IF file.k = "binary" THEN Result("UnicodeDecodeError", EmptyCatalog)
    ELSE IF file.k = "corrupt" THEN Result("JSONDecodeError", EmptyCatalog)
    ELSE IF file.k = "nonobj" THEN Result("none", NotAnObject)
    ELSE Result("none", FileCatalog(file))

\* except (json.JSONDecodeError, OSError)
ReadCaught(exc) == exc \in {"JSONDecodeError", "OSError"}

\* mutant: a rolling policy, the timestamp is compared with the current
\* date instead of the fixed deadline
load_or_update_valid_entries_rolling(variant, file, up, now, rd1, rd2, rd3, wr) ==
    LET chk == is_file_up_to_date(file, now, rd1)
        f == Fetch(variant, up, now, file, wr)
        r == ReadJson(f.file, rd2)
    IN  IF chk.exc # "none"
        THEN Loaded(chk.exc, EmptyCatalog, "raised", FALSE, NoFetch(file), TRUE)
        ELSE IF chk.val
        THEN Loaded("none", FileCatalog(file), "yes", FALSE, NoFetch(file), FALSE)
        ELSE IF f.exc # "none"
        THEN Loaded(f.exc, EmptyCatalog, "no", TRUE, f, FALSE)
        ELSE IF ReadCaught(r.exc)
        THEN Loaded("none", EmptyCatalog, "no", TRUE, f, TRUE)
        ELSE Loaded(r.exc, r.val, "no", TRUE, f, r.exc # "none")

load_or_update_valid_entries(variant, file, up, now, rd1, rd2, rd3, wr) ==
    LET chk == is_file_up_to_date(file, TRADE_DEADLINE, rd1)
    IN  IF chk.exc # "none"
        THEN Loaded(chk.exc, EmptyCatalog, "raised", FALSE, NoFetch(file), TRUE)
        ELSE IF chk.val
        THEN LET r == ReadJson(file, rd2)
             IN  IF ~ReadCaught(r.exc)
                 THEN Loaded(r.exc, r.val, "yes", FALSE, NoFetch(file),
                             r.exc # "none")
                 ELSE \* except (json.JSONDecodeError, OSError): re-fetch, and
                      \* the second open/json.load is not guarded
                      LET f == Fetch(variant, up, now, file, wr)
                          r2 == ReadJson(f.file, rd3)
                      IN  IF f.exc # "none"
                          THEN Loaded(f.exc, EmptyCatalog, "yes", TRUE, f, TRUE)
                          ELSE Loaded(r2.exc, r2.val, "yes", TRUE, f, TRUE)
        ELSE LET f == Fetch(variant, up, now, file, wr)
                 r == ReadJson(f.file, rd2)
             IN  IF f.exc # "none"
                 THEN Loaded(f.exc, EmptyCatalog, "no", TRUE, f, FALSE)
                 ELSE IF ReadCaught(r.exc)
                 THEN Loaded("none", EmptyCatalog, "no", TRUE, f, TRUE)
                 ELSE Loaded(r.exc, r.val, "no", TRUE, f, r.exc # "none")

(***************************************************************************)
(* Text.  A string is a sequence of one-character strings.                 *)
(***************************************************************************)
\* str.lower() on the letters the model types
LowerChar(c) ==
    CASE c = "A" -> "a" [] c = "B" -> "b" [] c = "E" -> "e" [] c = "I" -> "i"
      [] c = "L" -> "l" [] c = "M" -> "m" [] c = "T" -> "t" [] c = "X" -> "x"
      [] c = "N" -> "n" [] c = "Y" -> "y"
      [] OTHER -> c

Lower(str) == [i \in 1..Len(str) |-> LowerChar(str[i])]

\* str.strip(): leading and trailing whitespace removed
RECURSIVE LStrip(_)
LStrip(str) ==
    IF str # <<>> /\ Head(str) = " " THEN LStrip(Tail(str)) ELSE str

RECURSIVE RStrip(_)
RStrip(str) ==
    IF str # <<>> /\ str[Len(str)] = " "
    THEN RStrip(SubSeq(str, 1, Len(str) - 1)) ELSE str

Strip(str) == RStrip(LStrip(str))

\* Python `sub in text`
In(sub, text) ==
    \E i \in 0..(Len(text) - Len(sub)) : SubSeq(text, i + 1, i + Len(sub)) = sub

Mlb == <<"m", "l", "b">>
Exit == <<"e", "x", "i", "t">>

(***************************************************************************)
(* Entity resolution in main().  A resolution is [kind, id, name] with     *)
(* kind "team", "player", "league", "invalid" (the "Invalid input"         *)
(* message: the substring scripts return, the exact-match scripts prompt   *)
(* again) or "exit".                                                       *)
(***************************************************************************)
Resolution(kind, id, name) == [kind |-> kind, id |-> id, name |-> name]
Unset == Resolution("unset", None, <<>>)

\* the loop met an entry whose name is null: None.lower() raises
\* AttributeError and main() ends there
Raised == Resolution("raises", None, <<>>)
NoName(e) == e.name = NoneStr

\* for e in entries: if user_input.lower() in e['name'].lower(): ...; break
\* leaves `cur` as it is when nothing matches
RECURSIVE FirstMatch(_, _, _, _)
FirstMatch(entries, kind, user_input, cur) ==
    IF entries = <<>> THEN cur
    ELSE IF NoName(Head(entries)) THEN Raised
    ELSE IF In(Lower(user_input), Lower(Head(entries).name))
    THEN Resolution(kind, Head(entries).id, Head(entries).name)
    ELSE FirstMatch(Tail(entries), kind, user_input, cur)

\* `not entity_id`
NoEntityId(r) == ~TruthyId(r.id)

\* mutant: the league token is recognised whether or not an entity matched
LeagueOrInvalid_first(r, user_input) ==
    LET r2 == IF Lower(user_input) = Mlb
              THEN Resolution("league", None, <<"M", "L", "B">>) ELSE r
    IN  IF r = Raised THEN Raised
        ELSE IF NoEntityId(r2) /\ r2.kind # "league"
        THEN Resolution("invalid", None, <<>>) ELSE r2

\* the league check and the "Invalid input" return that follow the loops
LeagueOrInvalid(r, user_input) ==
    LET r2 == IF NoEntityId(r) /\ Lower(user_input) = Mlb
              THEN Resolution("league", None, <<"M", "L", "B">>) ELSE r
    IN  IF r = Raised THEN Raised
        ELSE IF NoEntityId(r2) /\ r2.kind # "league"
        THEN Resolution("invalid", None, <<>>) ELSE r2

\* mutant: the "Invalid input" return is missing
resolve_substring_noreturn(valid_entries, raw) ==
    LET user_input == Strip(raw)
        afterTeams == FirstMatch(valid_entries.teams, "team", user_input, Unset)
        afterPlayers == IF afterTeams = Raised THEN Raised
                        ELSE FirstMatch(valid_entries.players, "player",
                                        user_input, afterTeams)
    IN  IF afterPlayers = Raised THEN Raised
        ELSE IF NoEntityId(afterPlayers) /\ Lower(user_input) = Mlb
        THEN Resolution("league", None, <<"M", "L", "B">>) ELSE afterPlayers

\* main() of final_presentation.py 353-385 and FinalProjectv2.py 175-207:
\* the player loop runs whether or not a team matched
resolve_substring(valid_entries, raw) ==
    LET user_input == Strip(raw)
        afterTeams == FirstMatch(valid_entries.teams, "team", user_input, Unset)
        afterPlayers == IF afterTeams = Raised THEN Raised
                        ELSE FirstMatch(valid_entries.players, "player",
                                        user_input, afterTeams)
    IN  LeagueOrInvalid(afterPlayers, user_input)

\* main() of the second script of Outfield.py 663-697: both guarded loops
\* go over the teams, the players are never searched
resolve_substring_guarded(valid_entries, raw) ==
    LET user_input == Strip(raw)
        first == FirstMatch(valid_entries.teams, "team", user_input, Unset)
        second == IF NoEntityId(first)
                  THEN FirstMatch(valid_entries.teams, "team", user_input, first)
                  ELSE first
    IN  LeagueOrInvalid(second, user_input)

\* mutant: the first entry under a key is kept
NameMap_first(entries) ==
    LET keys == {Lower(entries[i].name) : i \in 1..Len(entries)}
        first(k) == CHOOSE i \in 1..Len(entries) :
                        /\ Lower(entries[i].name) = k
                        /\ \A j \in 1..Len(entries) :
                               Lower(entries[j].name) = k => i <= j
    IN  [k \in keys |-> entries[first(k)]]

\* { t['name'].lower(): t for t in entries }: a later entry replaces an
\* earlier one under the same key
NameMap(entries) ==
    LET keys == {Lower(entries[i].name) : i \in 1..Len(entries)}
        last(k) == CHOOSE i \in 1..Len(entries) :
                       /\ Lower(entries[i].name) = k
                       /\ \A j \in 1..Len(entries) :
                              Lower(entries[j].name) = k => j <= i
    IN  [k \in keys |-> entries[last(k)]]

\* mutant: the lookup accepts a key that contains the input
resolve_exact_contains(valid, raw) ==
    LET user_input == Lower(Strip(raw))
        teams == SelectSeq(valid.teams, LAMBDA t : In(user_input, Lower(t.name)))
        players == SelectSeq(valid.players, LAMBDA t : In(user_input, Lower(t.name)))
    IN  IF user_input = Exit THEN Resolution("exit", None, <<>>)
        ELSE IF teams # <<>>
        THEN Resolution("team", teams[Len(teams)].id, teams[Len(teams)].name)
        ELSE IF players # <<>>
        THEN Resolution("player", players[Len(players)].id,
                        players[Len(players)].name)
        ELSE IF user_input = Mlb
        THEN Resolution("league", None, <<"M", "L", "B">>)
        ELSE Resolution("invalid", None, <<>>)

\* one turn of the prompt loop in main() of final_presentation_v2.py 392-416
\* and of the first script of Outfield.py 427-451
\* (the two maps are built before the loop: a null name raises there)
resolve_exact(valid, raw) ==
    LET team_map == NameMap(valid.teams)
        player_map == NameMap(valid.players)
        user_input == Lower(Strip(raw))
        noName == \/ \E i \in 1..Len(valid.teams) : NoName(valid.teams[i])
                  \/ \E i \in 1..Len(valid.players) : NoName(valid.players[i])
    IN  IF noName THEN Raised
        ELSE IF user_input = Exit THEN Resolution("exit", None, <<>>)
        ELSE IF user_input \in DOMAIN team_map
        THEN Resolution("team", team_map[user_input].id,
                        team_map[user_input].name)
        ELSE IF user_input \in DOMAIN player_map
        THEN Resolution("player", player_map[user_input].id,
                        player_map[user_input].name)
        ELSE IF user_input = Mlb
        THEN Resolution("league", None, <<"M", "L", "B">>)
        ELSE Resolution("invalid", None, <<>>)

(***************************************************************************)
(* The scripts of the repository and the generation of each part they use. *)
(***************************************************************************)
Scripts == {"final_presentation_v2", "final_presentation", "FinalProjectv2",
            "Outfield_final_proj"}

RefreshOf(s) ==
    IF s \in {"final_presentation_v2", "final_presentation"}
    THEN "roster" ELSE "people"

ResolverOf(s) ==
    IF s = "final_presentation_v2" THEN "exact"
    ELSE IF s = "Outfield_final_proj" THEN "guarded" ELSE "substring"

Resolve(s, valid, raw) ==
    IF ResolverOf(s) = "exact" THEN resolve_exact(valid, raw)
    ELSE IF ResolverOf(s) = "guarded" THEN resolve_substring_guarded(valid, raw)
    ELSE resolve_substring(valid, raw)

(***************************************************************************)
(* Bounded input sets.                                                     *)
(***************************************************************************)
SeqsUpTo(S, n) == UNION {[1..k -> S] : k \in 0..n}

NameAb == <<"A", "b">>
NameB == <<"b">>

\* team records as the API may send them: two well formed, id null, id 0,
\* name empty
RawTeams ==
    {Rec(1, NameAb), Rec(2, NameB), Rec(None, NameAb), Rec(0, NameB),
     Rec(1, <<>>)}

\* person records: one well formed, one without an id key
RawPersons == {Rec(7, NameB), Rec(Absent, NameAb)}

FailResp == Resp(FALSE, <<>>)
TeamResps == {FailResp} \cup {Resp(TRUE, l) : l \in SeqsUpTo(RawTeams, MaxTeams)}
ListResps == {FailResp} \cup {Resp(TRUE, l) : l \in SeqsUpTo(RawPersons, MaxRoster)}

ValidRec(t) == TruthyId(GetId(t.id)) /\ TruthyName(GetName(t.name))

\* a roster is requested only for a team that was stored; the other
\* positions hold FailResp
RosterSeqs(tl) ==
    {rs \in [1..Len(tl) -> ListResps] :
        \A i \in 1..Len(tl) : ~ValidRec(tl[i]) => rs[i] = FailResp}

Upstream(teams, rosters, people) ==
    [teams |-> teams, rosters |-> rosters, people |-> people]

\* every upstream answer within the bounds, for one refresh generation
UpstreamsOf(g) ==
    IF g = "roster"
    THEN UNION {{Upstream(t, rs, FailResp) : rs \in RosterSeqs(t.list)} :
                    t \in TeamResps}
    ELSE {Upstream(t, <<>>, p) : t \in TeamResps, p \in ListResps}

\* the upstream answers of the life-cycle runs: team list down; no teams; a
\* team with its roster; a team whose roster request fails; a good and a
\* bad team; people answers good, down, with a null id, with a key absent
GoodRoster == Resp(TRUE, <<Rec(7, NameB)>>)
LifeUpstreamsOf(g) ==
    IF g = "roster"
    THEN {Upstream(FailResp, <<>>, FailResp),
          Upstream(Resp(TRUE, <<>>), <<>>, FailResp),
          Upstream(Resp(TRUE, <<Rec(1, NameAb)>>), <<GoodRoster>>, FailResp),
          Upstream(Resp(TRUE, <<Rec(1, NameAb)>>), <<FailResp>>, FailResp),
          Upstream(Resp(TRUE, <<Rec(None, NameAb), Rec(2, NameB)>>),
                   <<FailResp, GoodRoster>>, FailResp)}
    ELSE {Upstream(FailResp, <<>>, GoodRoster),
          Upstream(Resp(TRUE, <<Rec(1, NameAb)>>), <<>>, FailResp),
          Upstream(Resp(TRUE, <<Rec(1, NameAb)>>), <<>>, GoodRoster),
          Upstream(Resp(TRUE, <<Rec(None, NameAb)>>), <<>>, GoodRoster),
          Upstream(Resp(TRUE, <<Rec(1, NameAb)>>), <<>>,
                   Resp(TRUE, <<Rec(Absent, NameB)>>))}

Days == {<<2024, 7, 29>>, <<2024, 7, 30>>, <<2024, 7, 31>>, <<2025, 2, 28>>}

\* a catalog written by an earlier run, before the bounds' names
OldTeams == <<Rec(9, <<"o">>)>>
OldPlayers == <<Rec(8, <<"p">>)>>

InitTimestamps ==
    {NoTs, Ts("null", 0, 0, 0), Ts("num", 0, 0, 0), Ts("text", 0, 0, 0),
     Ts("ymd", 2024, 2, 30), Ts("ymd", 2024, 13, 1), Ts("ymd", 2023, 12, 31),
     Ts("ymd", 2024, 7, 30), Ts("ymd", 2024, 7, 31),
     TsW("ymd", 2024, 7, 31, <<4, 3, 2>>),
     TsU("ymd", 2025, 1, 1, <<4, 1, 1>>, <<{1, 2, 3, 4}, {}, {}>>)}

InitFiles ==
    {MissingFile, BinaryFile, CorruptFile, NonObjFile}
        \cup {File("obj", OldTeams, OldPlayers, ts) : ts \in InitTimestamps}

WriteOutcomes == {"ok", "denied", "partial"}

NoCall == [fresh |-> "never", fetched |-> FALSE, wr |-> "none", rdFail |-> FALSE,
           at |-> <<0, 0, 0>>]
NoBuilt == [made |-> FALSE, data |-> EmptyCatalog]
NoRes == Resolution("none", None, <<>>)

(***************************************************************************)
(* The catalog life cycle: runs of main() up to the return of              *)
(* load_or_update_valid_entries, on successive days.                       *)
(***************************************************************************)
Init ==
    /\ script \in Scripts
    /\ today \in Days
    /\ cache \in InitFiles
    /\ upstream \in LifeUpstreamsOf(RefreshOf(script))
    /\ ret = Result("never", EmptyCatalog)
    /\ call = NoCall
    /\ pre = MissingFile
    /\ built = NoBuilt
    /\ catalog = EmptyCatalog
    /\ query = <<>>
    /\ res = NoRes
    /\ refreshes = 0
    /\ PipeIdle

\* valid = load_or_update_valid_entries()
Load ==
    \E rd1, rd2, rd3 \in BOOLEAN, wr \in WriteOutcomes :
        LET r == load_or_update_valid_entries(RefreshOf(script), cache,
                     upstream, today, rd1, rd2, rd3, wr)
        IN  /\ r.fetched => refreshes < MaxRefreshes
            /\ refreshes' = IF r.fetched THEN refreshes + 1 ELSE refreshes
            /\ cache' = r.file
            /\ ret' = Result(r.exc, r.val)
            /\ call' = [fresh |-> r.fresh, fetched |-> r.fetched,
                        wr |-> r.wr, rdFail |-> r.rdFail, at |-> today]
            /\ pre' = cache
            /\ built' = [made |-> r.made, data |-> r.data]
            /\ catalog' = IF r.exc = "none" THEN r.val ELSE catalog
            /\ UNCHANGED <<today, upstream, query, res, script>>
            /\ UNCHANGED pipe

\* the calendar moves on between runs
Tick ==
    /\ \E d \in Days : DateGT(d, today) /\ today' = d
    /\ UNCHANGED <<cache, upstream, ret, call, pre, built, catalog, query,
                   res, script, refreshes>>
    /\ UNCHANGED pipe

Next == Load \/ Tick

Spec == Init /\ [][Next]_vars

(***************************************************************************)
(* One refresh against every upstream answer within the bounds: the first  *)
(* run of a script on a machine that has no cache file yet.                *)
(***************************************************************************)
RefreshDay == <<2025, 2, 28>>

InitRefresh ==
    /\ script \in {"final_presentation_v2", "FinalProjectv2"}
    /\ today = RefreshDay
    /\ cache = MissingFile
    /\ upstream \in UpstreamsOf(RefreshOf(script))
    /\ ret = Result("never", EmptyCatalog)
    /\ call = NoCall
    /\ pre = MissingFile
    /\ built = NoBuilt
    /\ catalog = EmptyCatalog
    /\ query = <<>>
    /\ res = NoRes
    /\ refreshes = 0
    /\ PipeIdle

FirstLoad == refreshes = 0 /\ Load

SpecRefresh == InitRefresh /\ [][FirstLoad]_vars

(***************************************************************************)
(* The resolver on every catalog and query within the bounds.  Teams carry *)
(* the ids 1, 2, ... and players 11, 12, ... in catalog order, so that two *)
(* entities of one name stay distinguishable.                              *)
(***************************************************************************)
Chars == {"a", "A", "b", " "}
TypedQueries ==
    SeqsUpTo(Chars, MaxQueryLen)
        \cup {Mlb, <<"M", "L", "B">>, Exit, <<"E", "x", "i", "t">>}

EntityNames == {<<"A", "b">>, <<"a", "b">>, <<"b">>}

Numbered(names, base) == [i \in 1..Len(names) |-> Rec(base + i, names[i])]

ResolverCatalogs ==
    {Catalog(Numbered(tn, 0), Numbered(pn, 10), strftime(RefreshDay)) :
        tn \in SeqsUpTo(EntityNames, MaxEntities),
        pn \in SeqsUpTo(EntityNames, MaxEntities)}

\* the state main() is in when load_or_update_valid_entries has returned
\* the catalog of a cache file written after the deadline
LoadedFresh ==
    /\ cache = File("obj", catalog.teams, catalog.players, catalog.ts)
    /\ upstream = Upstream(FailResp, <<>>, FailResp)
    /\ ret = Result("none", catalog)
    /\ call = [NoCall EXCEPT !.fresh = "yes", !.at = today]
    /\ pre = cache
    /\ built = NoBuilt
    /\ refreshes = 0

InitResolve ==
    /\ script \in {"final_presentation_v2", "final_presentation",
                    "Outfield_final_proj"}
    /\ today = RefreshDay
    /\ catalog \in ResolverCatalogs
    /\ LoadedFresh
    /\ query \in TypedQueries
    /\ res = NoRes
    /\ PipeIdle

\* user_input = input(...) and the matching that follows it
ResolveQuery ==
    /\ res = NoRes
    /\ res' = Resolve(script, catalog, query)
    /\ UNCHANGED <<today, cache, upstream, ret, call, pre, built, catalog,
                   query, script, refreshes>>
    /\ UNCHANGED pipe

SpecResolve == InitResolve /\ [][ResolveQuery]_vars

(***************************************************************************)
(* The exact-match prompt on catalogs whose names collide: two spellings   *)
(* of one name and an entity called like the exit word.                    *)
(***************************************************************************)
TieNames == {<<"A", "b">>, <<"a", "b">>, <<"E", "x", "i", "t">>}
TieQueries ==
    {<<"a", "b">>, <<"A", "B", " ">>, Exit, <<" ", "E", "x", "i", "t">>,
     <<"b">>}

TieCatalogs ==
    {Catalog(Numbered(tn, 0), Numbered(pn, 10), strftime(RefreshDay)) :
        tn \in SeqsUpTo(TieNames, MaxEntities),
        pn \in SeqsUpTo(TieNames, MaxEntities)}

InitTie ==
    /\ script = "final_presentation_v2"
    /\ today = RefreshDay
    /\ catalog \in TieCatalogs
    /\ LoadedFresh
    /\ query \in TieQueries
    /\ res = NoRes
    /\ PipeIdle

SpecTie == InitTie /\ [][ResolveQuery]_vars

(***************************************************************************)
(* Properties of the catalog life cycle.                                   *)
(***************************************************************************)
Called == call.fresh # "never"

\* the date a cache file carries, when it is an object whose timestamp
\* (or the 1900-01-01 default) is a date
HasDate(f) == f.k = "obj" /\ strptime(GetTimestamp(f.ts)).exc = "none"
DateOf(f) == strptime(GetTimestamp(f.ts)).val
OnOrBefore(a, b) == a = b \/ DateGT(b, a)

\* C1: for a cache file that exists and parses, the call refreshes when the
\* file's date is on or before TRADE_DEADLINE (the deadline itself counts
\* as stale) and, when it is after the deadline and the file stays
\* readable, loads it without a refresh.
C1_FreshIffAfterDeadline ==
    (Called /\ HasDate(pre) /\ ret.exc # "OSError") =>
        /\ call.fresh = (IF OnOrBefore(DateOf(pre), TRADE_DEADLINE)
                         THEN "no" ELSE "yes")
        /\ OnOrBefore(DateOf(pre), TRADE_DEADLINE) => call.fetched
        /\ (~OnOrBefore(DateOf(pre), TRADE_DEADLINE) /\ ~call.rdFail)
               => ~call.fetched

\* a call that found the timestamp equal to the deadline and refreshed
C1_Witness ==
    /\ Called
    /\ pre.k = "obj" /\ pre.ts = strftime(TRADE_DEADLINE)
    /\ call.fresh = "no" /\ call.fetched

\* C2 (as claimed): a missing file, a file that is not JSON, and a file
\* whose timestamp is absent or is not a YYYY-MM-DD date all make
\* is_file_up_to_date return False, without raising.
Degraded(f) ==
    \/ f.k \in {"missing", "binary", "corrupt"}
    \/ f.k = "obj" /\ f.ts.t = "absent"
    \/ f.k = "obj" /\ strptime(f.ts).exc # "none"

C2_DegradedIsStale ==
    (Called /\ Degraded(pre) /\ ret.exc # "OSError") => call.fresh = "no"

\* C3: once the file on disk carries a date after the deadline, no call
\* that can read it refreshes or rewrites it, whatever the current date.
FreshOnDisk == HasDate(cache) /\ DateGT(DateOf(cache), TRADE_DEADLINE)

C3_FreshForever ==
    [][(FreshOnDisk /\ ~call'.rdFail) =>
          (refreshes' = refreshes /\ cache' = cache)]_vars

\* a run on a later day that loaded, without a refresh, the file an earlier
\* run of this behaviour wrote
C3_Witness ==
    /\ refreshes = 1
    /\ call.fresh = "yes" /\ ~call.fetched /\ ~call.rdFail
    /\ cache.teams # OldTeams
    /\ DateGT(call.at, DateOf(cache))

\* C4 (as claimed): load_or_update_valid_entries returns a catalog and
\* raises nothing, for a missing, unreadable, corrupt, stale or fresh cache
\* and any upstream or write failure.
C4_NeverRaises ==
    (Called /\ pre.k # "nonobj" /\ pre.ts.t \notin {"null", "num"})
        => ret.exc = "none"

\* C5 (as claimed): a call that found the cache stale returns the catalog
\* its refresh built or the empty catalog, never the stale cached one.
C5_NeverStaleCatalog ==
    (Called /\ call.fresh = "no" /\ ret.exc = "none") =>
        \/ built.made /\ ret.val = built.data
        \/ ret.val = EmptyCatalog

\* C7 (as claimed): when the team list cannot be fetched, the refresh still
\* writes an empty catalog stamped with the day of the call, and the call
\* returns it (no file I/O failing).
C7_EmptyButTimestamped ==
    (Called /\ call.fetched /\ ~upstream.teams.ok /\ ~call.rdFail
        /\ call.wr \notin {"denied", "partial"}) =>
        /\ ret.exc = "none"
        /\ ret.val = Catalog(<<>>, <<>>, strftime(call.at))
        /\ cache = File("obj", <<>>, <<>>, strftime(call.at))

(***************************************************************************)
(* Properties of one refresh.                                              *)
(***************************************************************************)
\* what a refresh should collect, said without the loop: the records the
\* validity test accepts, in upstream order
ValidOf(list) == SelectSeq(list, ValidRec)

RECURSIVE RosterPlayersFrom(_, _, _)
RosterPlayersFrom(tl, rs, i) ==
    IF i > Len(tl) THEN <<>>
    ELSE (IF ValidRec(tl[i]) /\ rs[i].ok THEN ValidOf(rs[i].list) ELSE <<>>)
             \o RosterPlayersFrom(tl, rs, i + 1)

\* C6: in the roster generation a failing roster request never aborts the
\* refresh: the catalog built holds every team with a usable id and name,
\* failing ones included, and the usable players of exactly the teams whose
\* roster request succeeded; a successful write stores that catalog.
C6_PartialRosterTolerance ==
    (Called /\ RefreshOf(script) = "roster") =>
        /\ built.made /\ ret.exc = "none"
        /\ built.data.teams = ValidOf(upstream.teams.list)
        /\ built.data.players =
               RosterPlayersFrom(upstream.teams.list, upstream.rosters, 1)
        /\ call.wr = "ok" =>
               cache = File("obj", built.data.teams, built.data.players,
                            strftime(call.at))

\* two usable teams, the first roster request failed, the second brought a
\* player: both teams and that player are in the catalog
C6_Witness ==
    /\ Called /\ RefreshOf(script) = "roster"
    /\ Len(upstream.teams.list) = 2
    /\ ~upstream.rosters[1].ok /\ upstream.rosters[2].ok
    /\ Len(built.data.teams) = 2
    /\ Len(built.data.players) = 1
    /\ ret.val.teams = built.data.teams

\* C8 (as claimed): whatever the upstream sent, every entry a refresh stores
\* has a non-null id and a non-empty name.
StoredOk(e) ==
    /\ e.id \notin {None, Absent}
    /\ e.name \notin {<<>>, NoneStr, AbsentStr}

C8_StoredEntriesValid ==
    built.made =>
        /\ \A i \in 1..Len(built.data.teams) : StoredOk(built.data.teams[i])
        /\ \A i \in 1..Len(built.data.players) : StoredOk(built.data.players[i])

(***************************************************************************)
(* Properties of the resolver.                                             *)
(***************************************************************************)
Resolved == res.kind # "none"
Typed == Lower(Strip(query))

AsResolution(kind, e) == Resolution(kind, e.id, e.name)
Matches(e) == In(Typed, Lower(e.name))

\* the first entity, teams in catalog order and then players in catalog
\* order, whose lowercased name contains the lowercased query
FirstOfScan ==
    LET tm == SelectSeq(catalog.teams, Matches)
        pm == SelectSeq(catalog.players, Matches)
    IN  IF tm # <<>> THEN AsResolution("team", tm[1])
        ELSE IF pm # <<>> THEN AsResolution("player", pm[1])
        ELSE NoRes

\* C9 (as claimed): in the substring scripts a (non-empty) query resolves to
\* the first match of the scan teams-then-players; a query matching a team
\* and a player resolves to the team.
C9_TeamsBeforePlayers ==
    (Resolved /\ ResolverOf(script) # "exact" /\ Typed # <<>>
        /\ FirstOfScan # NoRes) => res = FirstOfScan

\* C10: the exact-match scripts resolve to a team or a player only when the
\* stripped, lowercased query equals the lowercased name of an entity of
\* that kind, and then to an entity of that name; a query that is only a
\* proper part of entity names is not resolved.
SameName(e) == Lower(e.name) = Typed

C10_ExactMatchOnly ==
    (Resolved /\ ResolverOf(script) = "exact") =>
        /\ res.kind = "team" =>
               \E i \in 1..Len(catalog.teams) :
                   /\ SameName(catalog.teams[i])
                   /\ res = AsResolution("team", catalog.teams[i])
        /\ res.kind = "player" =>
               \E i \in 1..Len(catalog.players) :
                   /\ SameName(catalog.players[i])
                   /\ res = AsResolution("player", catalog.players[i])
        /\ (/\ \A i \in 1..Len(catalog.teams) : ~SameName(catalog.teams[i])
            /\ \A i \in 1..Len(catalog.players) : ~SameName(catalog.players[i]))
               => res.kind \notin {"team", "player"}

\* the query is a proper part of a team name and of a player name, and is
\* turned down
C10_Witness ==
    /\ Resolved /\ ResolverOf(script) = "exact"
    /\ Typed # <<>>
    /\ catalog.teams # <<>> /\ Matches(catalog.teams[1])
    /\ catalog.players # <<>> /\ Matches(catalog.players[1])
    /\ res.kind = "invalid"

(***************************************************************************)
(* Sentiment categorisation.  A compound score is a multiple of 0.0001     *)
(* (the scorer rounds to four decimals) and is held as the integer         *)
(* score * 10000, so that the thresholds 0.667, 0.334, 0.333 and 0.666 of   *)
(* the code are 6670, 3340, 3330 and 6660.                                 *)
(***************************************************************************)
Scores == -10000..10000

\* mutant: the first threshold is exclusive
categorize_score_lt(s) ==
    IF s < -6670 THEN "Strongly negative"
    ELSE IF s <= -3340 THEN "Moderately negative"
    ELSE IF s < 0 THEN "Slightly negative"
    ELSE IF s = 0 THEN "Neutral"
    ELSE IF s <= 3330 THEN "Slightly positive"
    ELSE IF s <= 6660 THEN "Moderately positive"
    ELSE "Strongly positive"

\* mutant: the positive thresholds mirror the negative ones (0.334, 0.667)
categorize_score_mirror(s) ==
    IF s <= -6670 THEN "Strongly negative"
    ELSE IF s <= -3340 THEN "Moderately negative"
    ELSE IF s < 0 THEN "Slightly negative"
    ELSE IF s = 0 THEN "Neutral"
    ELSE IF s <= 3340 THEN "Slightly positive"
    ELSE IF s <= 6670 THEN "Moderately positive"
    ELSE "Strongly positive"

\* mutant: the test for 0.0 is missing
categorize_score_nozero(s) ==
    IF s <= -6670 THEN "Strongly negative"
    ELSE IF s <= -3340 THEN "Moderately negative"
    ELSE IF s < 0 THEN "Slightly negative"
    ELSE IF s <= 3330 THEN "Slightly positive"
    ELSE IF s <= 6660 THEN "Moderately positive"
    ELSE "Strongly positive"

\* categorize_score, final_presentation_v2.py 160-174
categorize_score(s) ==
    IF s <= -6670 THEN "Strongly negative"
    ELSE IF s <= -3340 THEN "Moderately negative"
    ELSE IF s < 0 THEN "Slightly negative"
    ELSE IF s = 0 THEN "Neutral"
    ELSE IF s <= 3330 THEN "Slightly positive"
    ELSE IF s <= 6660 THEN "Moderately positive"
    ELSE "Strongly positive"

(***************************************************************************)
(* Collaborators of the enrichment pipeline.  An HTTP answer is             *)
(* [kind, val]: kind "ok" (val is the parsed JSON), "transport"             *)
(* (requests.get raises), "http" (raise_for_status raises) or "badjson"     *)
(* (response.json() raises).  A statistics payload is an object of the     *)
(* API's envelope ('stats' a list of objects, 'splits' a list of objects):  *)
(* "empty" is {}, "nostats" an object whose 'stats' is missing or [],       *)
(* "nosplits" one whose first stats entry has 'splits' missing or [],       *)
(* "data" one whose first stats entry has a split.  An article is a record of its GNews fields; a text field is a  *)
(* sequence of words, AbsentStr when the key is missing, NoneStr when null. *)
(* sentiment_score is <<>> until analyze_sentiment sets it to <<score>>.    *)
(***************************************************************************)
Http(kind, val) == [kind |-> kind, val |-> val]

\* requests.get(url); raise_for_status(); response.json()
HttpGetJson(resp) ==
    IF resp.kind \in {"transport", "http"}
    THEN Result("RequestException", resp.val)
    ELSE IF resp.kind = "badjson" THEN Result("JSONDecodeError", resp.val)
    ELSE Result("none", resp.val)

\* try: ... except <caught>: return <default>
Except(r, caught, default) ==
    IF r.exc \in caught THEN Result("none", default) ELSE r

\* mutant: only the transport errors are handled
fetch_player_stats_nojson(resp) ==
    Except(HttpGetJson(resp), {"RequestException"}, "empty")

fetch_player_stats(resp) ==
    Except(HttpGetJson(resp), {"RequestException", "JSONDecodeError"}, "empty")

fetch_team_stats(resp) ==
    Except(HttpGetJson(resp), {"RequestException", "JSONDecodeError"}, "empty")

\* the except clauses of fetch_news: the second script of Outfield.py has
\* no clause for requests.exceptions.RequestException
NewsCaught(s) ==
    IF s = "Outfield_final_proj" THEN {"JSONDecodeError"}
    ELSE {"RequestException", "JSONDecodeError"}

fetch_news(s, resp) == Except(HttpGetJson(resp), NewsCaught(s), <<>>)

Article(title, description, content) ==
    [title |-> title, description |-> description, content |-> content,
     sentiment_score |-> <<>>]

\* sia.polarity_scores(text)['compound'] on the texts of the model, as
\* VADER scores them: no words 0.0, "good" 0.4404, "bad" -0.5423
polarity_scores(text) ==
    IF text = <<>> THEN 0
    ELSE IF text = <<"good">> THEN 4404
    ELSE IF text = <<"bad">> THEN -5423
    ELSE 0

\* article.get('description', '') or ''
DescriptionOrEmpty(article) ==
    IF article.description \in {AbsentStr, NoneStr, <<>>}
    THEN <<>> ELSE article.description

\* mutant: falls back to the content field
analyze_sentiment_content(articles) ==
    [i \in 1..Len(articles) |->
        [articles[i] EXCEPT !.sentiment_score =
            <<polarity_scores(IF DescriptionOrEmpty(articles[i]) = <<>>
                              THEN articles[i].content
                              ELSE articles[i].description)>>]]

\* mutant: an article without text to score is passed over
analyze_sentiment_partial(articles) ==
    [i \in 1..Len(articles) |->
        IF DescriptionOrEmpty(articles[i]) = <<>> THEN articles[i]
        ELSE [articles[i] EXCEPT !.sentiment_score =
                 <<polarity_scores(DescriptionOrEmpty(articles[i]))>>]]

analyze_sentiment(articles) ==
    [i \in 1..Len(articles) |->
        [articles[i] EXCEPT !.sentiment_score =
            <<polarity_scores(DescriptionOrEmpty(articles[i]))>>]]

(***************************************************************************)
(* The articles table.  db is the committed content, oldest row first.  A  *)
(* storage fault is [at, i]: at "none", "connect", "create", "commit", or  *)
(* "insert" at the i-th article.  Rows inserted before a fault were never  *)
(* committed: the connection is dropped with the transaction open and      *)
(* SQLite rolls it back.                                                    *)
(***************************************************************************)
Fault(at, i) == [at |-> at, i |-> i]
NoFault == Fault("none", 0)

\* article.get(key): None when the key is missing
GetOrNone(x) == IF x = AbsentStr THEN NoneStr ELSE x

\* the tuple bound to INSERT INTO articles VALUES (?,?,?,?,?,?)
Row(article) ==
    [title |-> GetOrNone(article.title), date |-> NoneStr, author |-> NoneStr,
     url |-> NoneStr, source |-> NoneStr,
     sentiment |-> article.sentiment_score]

\* for article in articles: c.execute("INSERT ...")
RECURSIVE InsertLoop(_, _, _, _)
InsertLoop(articles, i, txn, fault) ==
    IF articles = <<>> THEN Result("none", txn)
    ELSE IF fault.at = "insert" /\ fault.i = i
    THEN Result("sqlite3.Error", txn)
    ELSE InsertLoop(Tail(articles), i + 1, Append(txn, Row(Head(articles))),
                    fault)

\* the body of the try block: connect, CREATE TABLE IF NOT EXISTS, the
\* inserts, commit, close; val is the table afterwards
StoreBody(articles, table, fault) ==
    IF fault.at \in {"connect", "create"} THEN Result("sqlite3.Error", table)
    ELSE LET l == InsertLoop(articles, 1, <<>>, fault)
         IN  IF l.exc # "none" THEN Result(l.exc, table)
             ELSE IF fault.at = "commit" THEN Result("sqlite3.Error", table)
             ELSE Result("none", table \o l.val)

Stored(r, caught) ==
    [exc |-> IF r.exc \in caught THEN "none" ELSE r.exc,
     db |-> r.val,
     failed |-> r.exc # "none"]

\* mutant: INSERT OR IGNORE on a table keyed by title
RECURSIVE InsertNew(_, _)
InsertNew(articles, table) ==
    IF articles = <<>> THEN table
    ELSE InsertNew(Tail(articles),
                   IF \E k \in 1..Len(table) :
                          table[k].title = Row(Head(articles)).title
                   THEN table ELSE Append(table, Row(Head(articles))))

store_articles_unique(articles, table, fault) ==
    LET r == StoreBody(articles, table, fault)
    IN  Stored(IF r.exc = "none"
               THEN Result("none", InsertNew(articles, table)) ELSE r,
               {"sqlite3.Error"})

\* mutant: the try block ends before conn.commit()
store_articles_commit(articles, table, fault) ==
    Stored(StoreBody(articles, table, fault),
           IF fault.at = "commit" THEN {} ELSE {"sqlite3.Error"})

\* mutant: the connection commits every INSERT as it is executed
store_articles_autocommit(articles, table, fault) ==
    Stored(IF fault.at = "insert"
           THEN Result("sqlite3.Error",
                       table \o InsertLoop(articles, 1, <<>>, fault).val)
           ELSE StoreBody(articles, table, fault),
           {"sqlite3.Error"})

\* store_articles, final_presentation_v2.py 176-200
store_articles(articles, table, fault) ==
    Stored(StoreBody(articles, table, fault), {"sqlite3.Error"})

\* the catalog side of the state while only the pipeline is exercised
CatalogIdle ==
    /\ today = RefreshDay
    /\ cache = MissingFile
    /\ upstream = Upstream(FailResp, <<>>, FailResp)
    /\ ret = Result("never", EmptyCatalog)
    /\ call = NoCall
    /\ pre = MissingFile
    /\ built = NoBuilt
    /\ refreshes = 0

(***************************************************************************)
(* main(): load_or_update_valid_entries, prompt, statistics, news,         *)
(* scoring, persistence, display.  run.log lists the collaborator calls    *)
(* in the order made, each [fn, id, q]: the id a statistics call is keyed  *)
(* by, the text a news call or the display is given.                       *)
(***************************************************************************)
MaxArticles == 2    \* most articles one news answer carries
MaxStores == 2      \* store_articles calls followed on one table

\* the string literal 'entity_id' of Outfield.py line 702
LiteralEntityId == -3

CallOf(fn, id, q) == [fn |-> fn, id |-> id, q |-> q]

\* the if/elif after the resolution: the statistics call it makes, if any
StatsCall(s, r) ==
    IF r.kind = "player"
    THEN <<CallOf("fetch_player_stats",
                  IF s = "Outfield_final_proj" THEN LiteralEntityId ELSE r.id,
                  <<>>)>>
    ELSE IF r.kind = "team" /\ s = "final_presentation"
    THEN <<CallOf("fetch_team_stats", r.id, <<>>)>>
    ELSE <<>>

\* entity_name if entity_type != 'league' else 'MLB'
NewsQuery(r) == IF r.kind # "league" THEN r.name ELSE <<"M", "L", "B">>

RunNames == {<<"M", "l", "b">>, <<"b">>}
Yankees == <<"N", "e", "w", " ", "Y", "o", "r", "k", " ",
             "Y", "a", "n", "k", "e", "e", "s">>
\* catalogs whose entries carry an id and a name, as every refresh can
\* store them
RunCatalogs ==
    {Catalog(Numbered(tn, 0), Numbered(pn, 10), strftime(RefreshDay)) :
        tn \in SeqsUpTo(RunNames, 1), pn \in SeqsUpTo(RunNames, 1)}
        \cup {Catalog(<<Rec(147, Yankees)>>, <<>>, strftime(RefreshDay))}
\* catalogs that only the refresh of FinalProjectv2.py 56-57 and of the
\* second script of Outfield.py stores, ids and names copied unchecked: a
\* team with a null id, with the id 0, with a null name; a player with a
\* null id
UncheckedCatalogs ==
    {Catalog(<<Rec(None, <<"M", "l", "b">>)>>, <<Rec(11, <<"b">>)>>,
             strftime(RefreshDay)),
     Catalog(<<Rec(0, <<"b">>)>>, <<>>, strftime(RefreshDay)),
     Catalog(<<Rec(1, NoneStr)>>, <<Rec(11, <<"b">>)>>, strftime(RefreshDay)),
     Catalog(<<Rec(1, <<"M", "l", "b">>)>>, <<Rec(None, <<"b">>)>>,
             strftime(RefreshDay))}

\* the catalogs a script's own refresh can have left in the cache file
RunCatalogsOf(s) ==
    IF RefreshOf(s) = "people" THEN RunCatalogs \cup UncheckedCatalogs
    ELSE RunCatalogs

FileOf(c) == File("obj", c.teams, c.players, c.ts)

\* the cache file a run finds: none, or one written after the deadline by
\* an earlier run of the script
RunFilesOf(s) == {MissingFile} \cup {FileOf(c) : c \in RunCatalogsOf(s)}

\* the upstream answers of a run that has to refresh: the service down; a
\* team with one player, the team's id null in the people listing
RunUpstreamsOf(s) ==
    IF RefreshOf(s) = "roster"
    THEN {Upstream(FailResp, <<>>, FailResp),
          Upstream(Resp(TRUE, <<Rec(1, <<"M", "l", "b">>)>>), <<GoodRoster>>,
                   FailResp)}
    ELSE {Upstream(FailResp, <<>>, FailResp),
          Upstream(Resp(TRUE, <<Rec(None, <<"M", "l", "b">>)>>), <<>>,
                   GoodRoster)}

RunQueries ==
    {Mlb, <<"M", "L", "B", " ">>, <<"b">>, <<"l">>, <<"x">>, Exit,
     <<"y", "a", "n", "k", "e", "e", "s">>, <<>>, <<" ">>}

\* the days a run may happen on: a first of a month and a later day
RunDays == {<<2025, 2, 28>>, <<2025, 3, 1>>}

\* now.replace(day=1) .. now; the second script of Outfield.py passes the
\* literals "2024-09-01", "2024-09-30" instead
NewsWindow(s, now) ==
    IF s = "Outfield_final_proj"
    THEN <<strftime(<<2024, 9, 1>>), strftime(<<2024, 9, 30>>)>>
    ELSE <<strftime(<<now[1], now[2], 1>>), strftime(now)>>

\* time.sleep(1) stands between raise_for_status() and response.json()
NewsPause(resp) == resp.kind \notin {"transport", "http"}

\* display_player_stats / display_team_stats: the line that follows the
\* header, `full` standing for the lines of a season split
StatsLines(stats, full) ==
    IF stats \in {"empty", "nostats"} THEN "No stats available."
    ELSE IF stats = "nosplits" THEN "No seasonal splits found."
    ELSE full

\* mutant: every script prints the team placeholder of the later version
StatsMessage_soon(s, kind, stats) ==
    IF kind = "team" THEN "Statistical data for teams coming soon!"
    ELSE IF kind = "player" THEN StatsLines(stats, "player stats")
    ELSE "No statistical data available."

\* what display_results prints about the statistics
StatsMessage(s, kind, stats) ==
    IF s = "final_presentation"
    THEN IF stats # "empty"
         THEN (IF kind = "team" THEN StatsLines(stats, "team stats")
               ELSE IF kind = "player" THEN StatsLines(stats, "player stats")
               ELSE "nothing")
         ELSE "No statistical data available."
    ELSE IF s = "final_presentation_v2"
    THEN IF kind = "team" THEN "Statistical data for teams coming soon!"
         ELSE IF kind = "player" THEN StatsLines(stats, "player stats")
         ELSE "No statistical data available."
    ELSE IF s = "FinalProjectv2"
    THEN (IF stats # "empty" THEN "--- Stats ---" ELSE "nothing")
    ELSE (IF stats # "empty" THEN "stats json" ELSE "No stats available.")

StatsResps == {Http("ok", "data"), Http("ok", "nosplits"),
               Http("ok", "nostats"), Http("ok", "empty"),
               Http("transport", "empty"),
               Http("http", "empty"), Http("badjson", "empty")}

\* articles with the description missing, null, empty and present; the
\* content field never scores like the empty text
ArticlePool ==
    {Article(<<"t1">>, AbsentStr, <<"bad">>),
     Article(<<"t1">>, NoneStr, <<"bad">>),
     Article(<<"t2">>, <<>>, <<"bad">>),
     Article(AbsentStr, <<"good">>, <<"bad">>)}

NewsResps ==
    {Http("transport", <<>>), Http("http", <<>>), Http("badjson", <<>>)}
        \cup {Http("ok", l) : l \in SeqsUpTo(ArticlePool, MaxArticles)}

Faults(articles) ==
    {Fault(at, 0) : at \in {"none", "connect", "create", "commit"}}
        \cup {Fault("insert", i) : i \in 1..Len(articles)}

InitRun ==
    /\ script \in Scripts
    /\ today \in RunDays
    /\ \/ cache = MissingFile /\ upstream \in RunUpstreamsOf(script)
       \/ /\ cache \in RunFilesOf(script) \ {MissingFile}
          /\ upstream = Upstream(FailResp, <<>>, FailResp)
    /\ ret = Result("never", EmptyCatalog)
    /\ call = NoCall
    /\ pre = MissingFile
    /\ built = NoBuilt
    /\ refreshes = 0
    /\ catalog = EmptyCatalog
    /\ query = <<>>
    /\ res = NoRes
    /\ run = [NoRun EXCEPT !.pc = "start"]
    /\ db = <<>>
    /\ score = 0
    /\ label = "unset"

\* load_or_update_valid_entries() as the first statement of a run: the
\* call of Load, and the run goes on at `pcAfter` unless the call raised
LoadInto(pcAfter) ==
    \E rd1, rd2, rd3 \in BOOLEAN, wr \in WriteOutcomes :
        LET r == load_or_update_valid_entries(RefreshOf(script), cache,
                     upstream, today, rd1, rd2, rd3, wr)
        IN  /\ r.fetched => refreshes < MaxRefreshes
            /\ refreshes' = IF r.fetched THEN refreshes + 1 ELSE refreshes
            /\ cache' = r.file
            /\ ret' = Result(r.exc, r.val)
            /\ call' = [fresh |-> r.fresh, fetched |-> r.fetched,
                        wr |-> r.wr, rdFail |-> r.rdFail, at |-> today]
            /\ pre' = cache
            /\ built' = [made |-> r.made, data |-> r.data]
            /\ catalog' = IF r.exc = "none" THEN r.val ELSE catalog
            /\ run' = [run EXCEPT
                          !.pc = IF r.exc = "none" THEN pcAfter ELSE "crashed",
                          !.exc = r.exc]
            /\ UNCHANGED <<today, upstream, query, res, script, db, score,
                           label>>

\* valid = load_or_update_valid_entries(), the first statement of main()
EnsureFresh == run.pc = "start" /\ LoadInto("prompt")

\* input(...) and the matching: the exact-match scripts prompt again on an
\* invalid input, the substring scripts return
Prompt ==
    /\ run.pc = "prompt"
    /\ \E typed \in RunQueries :
           LET r == Resolve(script, catalog, typed)
           IN  /\ query' = typed
               /\ res' = r
               /\ run' = [run EXCEPT
                             !.pc =
                                 IF r = Raised THEN "crashed"
                                 ELSE IF r.kind = "invalid"
                                         /\ ResolverOf(script) = "exact"
                                 THEN "prompt"
                                 ELSE IF r.kind \in {"invalid", "exit"}
                                 THEN "done" ELSE "stats",
                             !.exc = IF r = Raised THEN "AttributeError"
                                     ELSE run.exc]
    /\ UNCHANGED <<today, cache, upstream, ret, call, pre, built, catalog,
                   script, refreshes, db, score, label>>

RunFrame ==
    UNCHANGED <<today, cache, upstream, ret, call, pre, built, catalog, query,
                res, script, refreshes, score, label>>

\* stats = {}; if entity_type == 'player': ... elif entity_type == 'team': ...
FetchStats ==
    /\ run.pc = "stats"
    /\ LET c == StatsCall(script, res)
       IN  IF c = <<>>
           THEN run' = [run EXCEPT !.pc = "news", !.stats = "empty"]
           ELSE \E resp \in StatsResps :
                    LET r == IF c[1].fn = "fetch_player_stats"
                             THEN fetch_player_stats(resp)
                             ELSE fetch_team_stats(resp)
                    IN  run' = [run EXCEPT
                                   !.log = run.log \o c,
                                   !.statsIn = resp.kind,
                                   !.pc = IF r.exc = "none" THEN "news"
                                          ELSE "crashed",
                                   !.exc = r.exc,
                                   !.stats = IF r.exc = "none" THEN r.val
                                             ELSE "empty"]
    /\ db' = db
    /\ RunFrame

\* articles = fetch_news(entity_name if entity_type != 'league' else 'MLB', ...)
FetchNews ==
    /\ run.pc = "news"
    /\ \E resp \in NewsResps :
           LET r == fetch_news(script, resp)
           IN  run' = [run EXCEPT
                          !.log = Append(run.log,
                                         CallOf("fetch_news", None,
                                                NewsQuery(res))),
                          !.newsIn = resp.kind,
                          !.window = NewsWindow(script, today),
                          !.paused = NewsPause(resp),
                          !.pc = IF r.exc = "none" THEN "score" ELSE "crashed",
                          !.exc = r.exc,
                          !.articles = IF r.exc = "none" THEN r.val ELSE <<>>]
    /\ db' = db
    /\ RunFrame

\* scored_articles = analyze_sentiment(articles): the scores are written
\* into the dicts of `articles` and that same list is returned
Analyze ==
    /\ run.pc = "score"
    /\ run' = [run EXCEPT
                  !.log = Append(run.log,
                                 CallOf("analyze_sentiment", None, <<>>)),
                  !.pc = "store",
                  !.articles = analyze_sentiment(run.articles),
                  !.scored = analyze_sentiment(run.articles)]
    /\ db' = db
    /\ RunFrame

\* store_articles(scored_articles)
Store ==
    /\ run.pc = "store"
    /\ \E fault \in Faults(run.scored) :
           LET r == store_articles(run.scored, db, fault)
           IN  /\ db' = r.db
               /\ run' = [run EXCEPT
                             !.log = Append(run.log,
                                            CallOf("store_articles", None,
                                                   <<>>)),
                             !.pc = IF r.exc = "none" THEN "display"
                                    ELSE "crashed",
                             !.exc = r.exc,
                             !.stored = IF r.failed THEN "failed" ELSE "ok"]
    /\ RunFrame

\* display_results(entity_name, entity_type, stats, scored_articles)
Display ==
    /\ run.pc = "display"
    /\ run' = [run EXCEPT
                  !.log = Append(run.log,
                                 CallOf("display_results", None, res.name)),
                  !.shown = StatsMessage(script, res.kind, run.stats),
                  !.pc = "done"]
    /\ db' = db
    /\ RunFrame

NextRun ==
    EnsureFresh \/ Prompt \/ FetchStats \/ FetchNews \/ Analyze \/ Store
        \/ Display

SpecRun == InitRun /\ [][NextRun]_vars

(***************************************************************************)
(* The "example usage" block under if __name__ == "__main__" of            *)
(* FinalProjectv2.py (156-171) and of the second script of Outfield.py     *)
(* (640-655): a fixed query and window, and scoring and storing only when  *)
(* the news list is not empty.  FinalProjectv2.py never calls main(): this *)
(* block is all that running the file does.                                *)
(***************************************************************************)
InitExample ==
    /\ script \in {"FinalProjectv2", "Outfield_final_proj"}
    /\ today = RefreshDay
    /\ \/ cache = MissingFile /\ upstream \in RunUpstreamsOf(script)
       \/ /\ cache \in RunFilesOf(script) \ {MissingFile}
          /\ upstream = Upstream(FailResp, <<>>, FailResp)
    /\ ret = Result("never", EmptyCatalog)
    /\ call = NoCall
    /\ pre = MissingFile
    /\ built = NoBuilt
    /\ refreshes = 0
    /\ catalog = EmptyCatalog
    /\ query = <<>>
    /\ res = NoRes
    /\ run = [NoRun EXCEPT !.pc = "example_start"]
    /\ db = <<>>
    /\ score = 0
    /\ label = "unset"

\* valid_entities = load_or_update_valid_entries(), the first statement of
\* the block (FinalProjectv2.py 157, Outfield.py 641)
ExampleLoad == run.pc = "example_start" /\ LoadInto("example")

\* news_articles = fetch_news(query, from_date_str, to_date_str);
\* if news_articles: ... else: print("No news articles found ...")
ExampleNews ==
    /\ run.pc = "example"
    /\ \E resp \in NewsResps :
           LET r == fetch_news(script, resp)
           IN  run' = [run EXCEPT
                          !.log = Append(run.log,
                                         CallOf("fetch_news", None, Yankees)),
                          !.newsIn = resp.kind,
                          !.window = <<strftime(<<2025, 5, 1>>),
                                       strftime(<<2025, 5, 2>>)>>,
                          !.paused = NewsPause(resp),
                          !.pc = IF r.exc # "none" THEN "crashed"
                                 ELSE IF r.val = <<>> THEN "done"
                                 ELSE "example_score",
                          !.exc = r.exc,
                          !.articles = IF r.exc = "none" THEN r.val ELSE <<>>]
    /\ db' = db
    /\ RunFrame

\* analyzed_articles = analyze_sentiment(news_articles)
ExampleAnalyze ==
    /\ run.pc = "example_score"
    /\ run' = [run EXCEPT
                  !.log = Append(run.log,
                                 CallOf("analyze_sentiment", None, <<>>)),
                  !.pc = "example_store",
                  !.articles = analyze_sentiment(run.articles),
                  !.scored = analyze_sentiment(run.articles)]
    /\ db' = db
    /\ RunFrame

\* store_articles(analyzed_articles)
ExampleStore ==
    /\ run.pc = "example_store"
    /\ \E fault \in Faults(run.scored) :
           LET r == store_articles(run.scored, db, fault)
           IN  /\ db' = r.db
               /\ run' = [run EXCEPT
                             !.log = Append(run.log,
                                            CallOf("store_articles", None,
                                                   <<>>)),
                             !.pc = IF r.exc = "none" THEN "done"
                                    ELSE "crashed",
                             !.exc = r.exc,
                             !.stored = IF r.failed THEN "failed" ELSE "ok"]
    /\ RunFrame

NextExample == ExampleLoad \/ ExampleNews \/ ExampleAnalyze \/ ExampleStore

SpecExample == InitExample /\ [][NextExample]_vars

(***************************************************************************)
(* store_articles called run after run on one table.  run.log keeps, for   *)
(* each call, the articles passed and whether the call met a fault.        *)
(***************************************************************************)
ScoredPool ==
    {analyze_sentiment(<<a>>)[1] :
        a \in {Article(<<"t1">>, AbsentStr, <<"bad">>),
               Article(AbsentStr, <<"good">>, <<"bad">>)}}

StoreOf(articles, failed, fault) ==
    [fn |-> "store_articles", articles |-> articles, failed |-> failed,
     fault |-> fault]

InitStore ==
    /\ CatalogIdle
    /\ script = "final_presentation_v2"
    /\ catalog = EmptyCatalog
    /\ query = <<>>
    /\ res = NoRes
    /\ run = NoRun
    /\ db = <<>>
    /\ score = 0
    /\ label = "unset"

StoreCall ==
    /\ Len(run.log) < MaxStores
    /\ \E articles \in SeqsUpTo(ScoredPool, MaxArticles) :
           \E fault \in Faults(articles) :
               LET r == store_articles(articles, db, fault)
               IN  /\ db' = r.db
                   /\ run' = [run EXCEPT
                                 !.log = Append(run.log,
                                                StoreOf(articles, r.failed, fault)),
                                 !.scored = articles,
                                 !.exc = r.exc,
                                 !.stored = IF r.failed THEN "failed"
                                            ELSE "ok"]
    /\ RunFrame

SpecStore == InitStore /\ [][StoreCall]_vars

InitCategorize ==
    /\ CatalogIdle
    /\ script = "final_presentation_v2"
    /\ catalog = EmptyCatalog
    /\ query = <<>>
    /\ res = NoRes
    /\ run = NoRun
    /\ db = <<>>
    /\ score \in Scores
    /\ label = "unset"

\* label = categorize_score(avg_score), display_results
Categorize ==
    /\ label = "unset"
    /\ label' = categorize_score(score)
    /\ UNCHANGED <<today, cache, upstream, ret, call, pre, built, catalog,
                   query, res, script, refreshes, run, db, score>>

SpecCategorize == InitCategorize /\ [][Categorize]_vars

(***************************************************************************)
(* Properties of the categorisation.                                       *)
(***************************************************************************)
Categorized == label # "unset"

\* C16: every score in [-1, 1], at a resolution of 0.0001, gets the label
\* of the seven-bucket table: <= -0.667 Strongly negative, (-0.667, -0.334]
\* Moderately negative, (-0.334, 0) Slightly negative, 0 Neutral,
\* (0, 0.333] Slightly positive, (0.333, 0.666] Moderately positive,
\* > 0.666 Strongly positive; the buckets are disjoint, so each score has
\* exactly one label.
C16_SevenBuckets ==
    Categorized =>
        /\ (label = "Strongly negative") <=> (score <= -6670)
        /\ (label = "Moderately negative") <=> (-6670 < score /\ score <= -3340)
        /\ (label = "Slightly negative") <=> (-3340 < score /\ score < 0)
        /\ (label = "Neutral") <=> (score = 0)
        /\ (label = "Slightly positive") <=> (0 < score /\ score <= 3330)
        /\ (label = "Moderately positive") <=> (3330 < score /\ score <= 6660)
        /\ (label = "Strongly positive") <=> (score > 6660)

C16_Witness == Categorized /\ score = -6670 /\ label = "Strongly negative"

\* C17 as stated: -0.667 and -0.6669 are Strongly negative, -0.6 is
\* Moderately negative, 0 is Neutral, 0.667 is Strongly positive.
C17_BoundaryValues ==
    Categorized =>
        /\ score = -6670 => label = "Strongly negative"
        /\ score = -6669 => label = "Strongly negative"
        /\ score = -6000 => label = "Moderately negative"
        /\ score = 0 => label = "Neutral"
        /\ score = 6670 => label = "Strongly positive"

\* C17 amended: -0.6669 lies above the -0.667 threshold and is Moderately
\* negative; the other four boundary values are as stated.
C17_BoundaryValuesAmended ==
    Categorized =>
        /\ score = -6670 => label = "Strongly negative"
        /\ score = -6669 => label = "Moderately negative"
        /\ score = -6000 => label = "Moderately negative"
        /\ score = 0 => label = "Neutral"
        /\ score = 6670 => label = "Strongly positive"

C17_Witness == Categorized /\ score = -6669 /\ label = "Moderately negative"

(***************************************************************************)
(* Properties of the enrichment pipeline.                                  *)
(***************************************************************************)
LeagueSentinel == Resolution("league", None, <<"M", "L", "B">>)

Entities ==
    {catalog.teams[i] : i \in 1..Len(catalog.teams)}
        \cup {catalog.players[i] : i \in 1..Len(catalog.players)}

\* an entity of the catalog matches the query under the script's rule:
\* equal names for the exact-match scripts, containment for the others
EntityMatched ==
    \E e \in Entities :
        IF ResolverOf(script) = "exact" THEN SameName(e) ELSE Matches(e)

\* every entry of the catalog carries an id and a name, as the roster
\* refresh stores them; the people refresh does not check (C8)
CatalogValid == \A e \in Entities : ValidRec(e)

\* the scripts whose own refresh validates what it stores, and the other
\* scripts as long as their catalog holds no entry without id or name
EntriesChecked == RefreshOf(script) = "roster" \/ CatalogValid

Logged(fn) == \E i \in 1..Len(run.log) : run.log[i].fn = fn
StatsFetched == Logged("fetch_player_stats") \/ Logged("fetch_team_stats")

C13_StatsByKindAndId ==
    (res.kind \in {"team", "player"} /\ run.pc \notin {"idle", "prompt", "stats"})
        => \E i \in 1..Len(run.log) :
               run.log[i] = CallOf(IF res.kind = "team" THEN "fetch_team_stats"
                                   ELSE "fetch_player_stats", res.id, <<>>)

StatsFailed == run.statsIn \in {"transport", "http", "badjson"}
NewsFailed == run.newsIn \in {"transport", "http", "badjson"}

\* the calls of the log from the first call of fn on
Follows(fn, later) ==
    \E i \in 1..Len(run.log) : \E j \in (i + 1)..Len(run.log) :
        run.log[i].fn = fn /\ run.log[j].fn = later

\* C14: when the statistics request fails (network, HTTP status or
\* unparseable body) the statistics call returns the empty payload without
\* raising, and the run goes on: it never stops with an exception at the
\* statistics step and a finished run has fetched news, scored and stored.
C14_StatsFailureIsEmpty ==
    StatsFailed =>
        /\ run.stats = "empty"
        /\ run.pc # "crashed"
        /\ run.pc = "done" =>
               /\ Follows("fetch_player_stats", "fetch_news")
                      \/ Follows("fetch_team_stats", "fetch_news")
               /\ Follows("fetch_news", "analyze_sentiment")
               /\ Follows("analyze_sentiment", "store_articles")

C14_Witness ==
    /\ run.statsIn = "badjson"
    /\ run.pc = "done"
    /\ run.stored = "ok"
    /\ Len(db) > 0

\* C15 (as claimed): in every script a failed news request (network, HTTP
\* status, unparseable body) is caught: fetch_news returns the empty list,
\* nothing is raised, and the run goes on to scoring with zero articles.
C15_NewsFailureIsEmpty ==
    NewsFailed =>
        /\ run.exc = "none"
        /\ run.pc # "crashed"
        /\ run.articles = <<>>

Scored == run.pc \in {"store", "display", "done"}

\* C18: every article is scored on its description when that is present
\* and non-empty and on the empty text otherwise, never on its content: an
\* article whose description is missing, null or empty gets the score 0,
\* which is labelled Neutral, and scoring raises nothing.
C18_ScoredOnDescription ==
    Scored =>
        /\ run.exc = "none"
        /\ Len(run.scored) = Len(run.articles)
        /\ \A i \in 1..Len(run.articles) :
               LET d == run.articles[i].description
               IN  IF d \in {AbsentStr, NoneStr, <<>>}
                   THEN /\ run.scored[i].sentiment_score = <<0>>
                        /\ categorize_score(0) = "Neutral"
                   ELSE run.scored[i].sentiment_score = <<polarity_scores(d)>>

C18_Witness ==
    /\ Scored
    /\ Len(run.scored) = 2
    /\ run.articles[1].description = AbsentStr
    /\ polarity_scores(run.articles[1].content) # 0
    /\ run.scored[1].sentiment_score = <<0>>
    /\ run.scored[2].sentiment_score = <<4404>>

\* C20: a storage fault at connect, table creation, an insert or commit
\* does not leave store_articles: the run raises nothing, goes on to
\* display_results and ends with that call, given the same entity and the
\* same scored articles as without the fault.
C20_StorageFaultContained ==
    run.stored = "failed" =>
        /\ run.exc = "none"
        /\ run.pc \in {"display", "done"}
        /\ run.scored = analyze_sentiment(run.articles)
        /\ run.pc = "done" =>
               run.log[Len(run.log)] = CallOf("display_results", None, res.name)

C20_Witness ==
    /\ run.stored = "failed"
    /\ run.pc = "done"
    /\ Len(run.scored) = 2
    /\ db = <<>>

(***************************************************************************)
(* Properties of the articles table.                                       *)
(***************************************************************************)
AllSucceeded == \A i \in 1..Len(run.log) : ~run.log[i].failed

\* the rows of the articles passed by the calls, in call and input order
RECURSIVE RowsPassed(_)
RowsPassed(calls) ==
    IF calls = <<>> THEN <<>>
    ELSE [i \in 1..Len(Head(calls).articles) |->
             [title |-> IF Head(calls).articles[i].title = AbsentStr
                        THEN NoneStr ELSE Head(calls).articles[i].title,
              date |-> NoneStr, author |-> NoneStr, url |-> NoneStr,
              source |-> NoneStr,
              sentiment |-> Head(calls).articles[i].sentiment_score]]
         \o RowsPassed(Tail(calls))

\* C19: after any sequence of store_articles calls that met no fault, the
\* table holds exactly the rows of the articles passed, one per article,
\* in call order and input order: nothing earlier is changed or removed,
\* an article passed twice has two rows, an empty call adds none.
C19_PureAppend == AllSucceeded => db = RowsPassed(run.log)

C19_Witness ==
    /\ AllSucceeded
    /\ Len(run.log) = 2
    /\ Len(run.log[1].articles) = 2
    /\ run.log[1].articles[1] = run.log[1].articles[2]
    /\ run.log[2].articles = <<>>
    /\ Len(db) = 2
    /\ db[1] = db[2]

(***************************************************************************)
(* Properties of the order of the pipeline.                                *)
(***************************************************************************)
Calls(fn) == {i \in 1..Len(run.log) : run.log[i].fn = fn}

\* C21 (as claimed): a finished run that fetched news has called
\* store_articles exactly once, after analyze_sentiment, also when the
\* news list was empty.
C21_StoredExactlyOnce ==
    (run.pc = "done" /\ Logged("fetch_news")) =>
        /\ Cardinality(Calls("store_articles")) = 1
        /\ Follows("analyze_sentiment", "store_articles")

LogNames == [i \in 1..Len(run.log) |-> run.log[i].fn]

\* C22: with the catalog holding the team 147 "New York Yankees", the
\* query "yankees" resolves to that team in the substring scripts; when
\* the statistics request for it fails, stats is {} and the run still
\* fetches news for the team, scores, stores and displays, and
\* display_results prints "No statistical data available."
C22_YankeesScenario ==
    (/\ Resolved
     /\ ResolverOf(script) # "exact"
     /\ catalog.teams = <<Rec(147, Yankees)>>
     /\ query = <<"y", "a", "n", "k", "e", "e", "s">>)
        => /\ res = Resolution("team", 147, Yankees)
           /\ StatsFailed =>
                  /\ run.log[1] = CallOf("fetch_team_stats", 147, <<>>)
                  /\ run.stats = "empty"
                  /\ run.pc # "crashed"
                  /\ run.pc = "done" =>
                         /\ LogNames = <<"fetch_team_stats", "fetch_news",
                                         "analyze_sentiment", "store_articles",
                                         "display_results">>
                         /\ run.log[2].q = Yankees
                         /\ run.shown = "No statistical data available."

C22_Witness ==
    /\ script = "final_presentation"
    /\ res = Resolution("team", 147, Yankees)
    /\ run.statsIn = "transport"
    /\ run.pc = "done"
    /\ run.stored = "ok"
    /\ Len(db) = 2
    /\ run.shown = "No statistical data available."

\* C23 (as claimed): the news request of a run carries the catalog name of
\* the resolved team or player (not the text typed), or "MLB" for the
\* league, and the window from the first day of the current month to
\* today.
C23_NewsQueryAndWindow ==
    (Logged("fetch_news") /\ Resolved) =>
        /\ \A i \in Calls("fetch_news") :
               IF res.kind = "league" THEN run.log[i].q = <<"M", "L", "B">>
               ELSE \E e \in Entities :
                        e.id = res.id /\ run.log[i].q = e.name
        /\ run.window = <<strftime(<<today[1], today[2], 1>>), strftime(today)>>

\* position of a step of main() in the order load, resolve, statistics,
\* news, scoring, persistence, presentation
StepRank(pc) ==
    CASE pc = "start" -> 0 [] pc = "prompt" -> 1 [] pc = "stats" -> 2
      [] pc = "news" -> 3 [] pc = "score" -> 4 [] pc = "store" -> 5
      [] pc = "display" -> 6 [] OTHER -> 7

CallRank(fn) ==
    CASE fn \in {"fetch_player_stats", "fetch_team_stats"} -> 2
      [] fn = "fetch_news" -> 3 [] fn = "analyze_sentiment" -> 4
      [] fn = "store_articles" -> 5 [] OTHER -> 6

InOrder ==
    /\ \A i \in 1..Len(run.log) : \A j \in 1..Len(run.log) :
           i < j => CallRank(run.log[i].fn) < CallRank(run.log[j].fn)
    /\ \A i \in 1..Len(run.log) : CallRank(run.log[i].fn) < StepRank(run.pc)
    /\ run.log # <<>> =>
           (Resolved /\ Called /\ ret.exc = "none" /\ catalog = ret.val)
    /\ \A k \in 1..Len(db) : db[k].sentiment # <<>>
    /\ Logged("display_results") =>
           \A k \in 1..Len(run.scored) : run.scored[k].sentiment_score # <<>>

OneStepOn ==
    run'.pc # run.pc =>
        \/ StepRank(run'.pc) = StepRank(run.pc) + 1
        \/ run.pc = "prompt" /\ run'.pc = "done"
        \/ run'.pc = "crashed"

\* C24: a run goes through load, resolve, statistics, news, scoring,
\* persistence and presentation in that order, one step at a time and each
\* collaborator at most once; so every row stored and every article
\* displayed carries a sentiment score.
C24_FixedOrder == [](InOrder) /\ [][OneStepOn]_vars

C24_Witness ==
    /\ LogNames = <<"fetch_player_stats", "fetch_news", "analyze_sentiment",
                    "store_articles", "display_results">>
    /\ run.pc = "done"
    /\ Len(db) = 2
    /\ run.articles[1].description = AbsentStr

\* C25 (as claimed): a run requests the news collaborator at most once,
\* and whatever the outcome of the request the one-second pause has been
\* taken by the time fetch_news is over.
C25_PauseAfterEveryRequest ==
    /\ Cardinality(Calls("fetch_news")) <= 1
    /\ run.newsIn # "none" => run.paused

(***************************************************************************)
(* Symmetry of the categorisation.                                         *)
(***************************************************************************)
Mirror(l) ==
    CASE l = "Strongly negative" -> "Strongly positive"
      [] l = "Moderately negative" -> "Moderately positive"
      [] l = "Slightly negative" -> "Slightly positive"
      [] l = "Strongly positive" -> "Strongly negative"
      [] l = "Moderately positive" -> "Moderately negative"
      [] l = "Slightly positive" -> "Slightly negative"
      [] OTHER -> l

Magnitude(s) == IF s < 0 THEN -s ELSE s

\* the magnitudes strictly between 0.333 and 0.334 or 0.666 and 0.667
BetweenBreaks(s) ==
    Magnitude(s) \in (3331..3339) \cup (6661..6669)

\* C26 as stated: the label of -s is the mirror image of the label of s,
\* for every score s.
C26_LabelSymmetry ==
    Categorized => categorize_score(-score) = Mirror(label)

\* C26 amended: the label of -s mirrors the label of s except when |s| lies
\* strictly between 0.333 and 0.334 or between 0.666 and 0.667, where the
\* positive score is labelled one bucket stronger than the negative one
\* (Moderately positive against Slightly negative, Strongly positive
\* against Moderately negative).
C26_LabelSymmetryAmended ==
    Categorized =>
        IF ~BetweenBreaks(score)
        THEN categorize_score(-score) = Mirror(label)
        ELSE LET pos == IF score > 0 THEN label ELSE categorize_score(-score)
                 neg == IF score > 0 THEN categorize_score(-score) ELSE label
             IN  IF Magnitude(score) < 5000
                 THEN pos = "Moderately positive" /\ neg = "Slightly negative"
                 ELSE pos = "Strongly positive" /\ neg = "Moderately negative"

C26_Witness ==
    /\ Categorized
    /\ score = -6665
    /\ label = "Moderately negative"
    /\ categorize_score(6665) = "Strongly positive"

(***************************************************************************)
(* Further properties of the catalog life cycle.                           *)
(***************************************************************************)
EmptyDated(f) ==
    /\ f.k = "obj"
    /\ f.teams = <<>>
    /\ f.players = <<>>
    /\ HasDate(f)
    /\ DateGT(DateOf(f), TRADE_DEADLINE)

\* C27: in the roster generation a refresh whose team listing fails, and
\* whose write goes through, leaves the cache with no teams, no players
\* and the date of that day; and a later call that finds such a file dated
\* after the deadline (and can read it) returns the empty catalog without
\* a refresh, so that no query resolves to a team or a player.
C27_EmptyCatalogStaysFresh ==
    /\ (/\ Called
        /\ call.fetched
        /\ RefreshOf(script) = "roster"
        /\ ~upstream.teams.ok
        /\ call.wr \notin {"denied", "partial"})
           => cache = File("obj", <<>>, <<>>, strftime(call.at))
    /\ (Called /\ EmptyDated(pre) /\ ~call.rdFail)
           => /\ ~call.fetched
              /\ cache = pre
              /\ ret = Result("none", Catalog(<<>>, <<>>, pre.ts))
              /\ \A q \in TypedQueries :
                     Resolve(script, ret.val, q).kind \notin {"team", "player"}

C27_Witness ==
    /\ script = "final_presentation_v2"
    /\ ~upstream.teams.ok
    /\ refreshes = 1
    /\ Called
    /\ ~call.fetched
    /\ EmptyDated(pre)
    /\ DateGT(call.at, DateOf(pre))
    /\ ret.val.teams = <<>>

(***************************************************************************)
(* Further properties of the articles table.                               *)
(***************************************************************************)
Complete(c) == ~c.failed

\* C28: after any sequence of store_articles calls the table holds exactly
\* the rows of the calls that met no fault, whole and in order: a call
\* stopped by a fault, also one at a later insert or at the commit, leaves
\* none of its rows.
C28_AllOrNothing == db = RowsPassed(SelectSeq(run.log, Complete))

C28_Witness ==
    /\ Len(run.log) = 2
    /\ ~run.log[1].failed
    /\ Len(run.log[1].articles) = 1
    /\ run.log[2].failed
    /\ run.log[2].fault = Fault("insert", 2)
    /\ Len(db) = 1

(***************************************************************************)
(* Further properties of the resolver.                                     *)
(***************************************************************************)
\* C29: at the exact-match prompt the exit word ends the loop and names no
\* entity, also when an entity is called so; any other query that equals
\* (stripped, lowercased) the lowercased name of teams resolves to the last
\* of them in catalog order, whether or not a player has the name; one
\* that equals the name of players only, to the last of those.
C29_LastOfKindTeamFirst ==
    (Resolved /\ ResolverOf(script) = "exact") =>
        LET tm == SelectSeq(catalog.teams, SameName)
            pm == SelectSeq(catalog.players, SameName)
        IN  /\ Typed = Exit => res = Resolution("exit", None, <<>>)
            /\ (Typed # Exit /\ tm # <<>>)
                   => res = AsResolution("team", tm[Len(tm)])
            /\ (Typed # Exit /\ tm = <<>> /\ pm # <<>>)
                   => res = AsResolution("player", pm[Len(pm)])

\* two teams and a player under one lowercased name: the second team wins
C29_Witness ==
    /\ Resolved
    /\ script = "final_presentation_v2"
    /\ Len(catalog.teams) = 2
    /\ SameName(catalog.teams[1]) /\ SameName(catalog.teams[2])
    /\ catalog.teams[1].name # catalog.teams[2].name
    /\ catalog.players # <<>> /\ SameName(catalog.players[1])
    /\ res = AsResolution("team", catalog.teams[2])

\* C30 (as claimed): in the scripts that match by substring over teams and
\* players, a query that is empty after stripping, typed against a catalog
\* with at least one entity, is not turned down: it resolves to a team or a
\* player of the catalog, and the run goes on to the news request and
\* beyond.
C30_BlankQueryResolves ==
    (/\ Resolved
     /\ ResolverOf(script) = "substring"
     /\ Strip(query) = <<>>
     /\ Entities # {})
        => /\ res.kind \in {"team", "player"}
           /\ \E e \in Entities : res.id = e.id /\ res.name = e.name
           /\ run.pc \in {"stats", "news", "score", "store", "display", "done"}
           /\ run.pc = "done" =>
                  /\ Logged("fetch_news")
                  /\ Logged("display_results")
====
